---- MODULE Spec2Model ----
(***************************************************************************)
(* Model of src/server.js: the identity store (User collection), the JWT  *)
(* token service, the authenticateJWT access guard, and the order ledger  *)
(* (Order collection) with its query routes.                              *)
(*                                                                         *)
(* Every request handler is one action.  The response of the handler that *)
(* ran last is kept in `last`, with the request that produced it.         *)
(*                                                                         *)
(* Spec is the whole server, its runs cut at MaxRequests requests.        *)
(* SpecIdentity and SpecLedger explore the two collections without that   *)
(* cut: the handlers of one collection never write the other.             *)
(* SpecRace serves sign-ups concurrently, each handler split at its       *)
(* awaits into the existence check and the save.                          *)
(***************************************************************************)
EXTENDS Integers, Sequences, FiniteSets, TLC

\* ------------------------------------------------------------------ bounds
MaxKey == 2        \* distinct identifier strings clients use as email / mobile
MaxSecret == 2     \* distinct passwords clients use
MaxSalt == 1       \* distinct salts bcrypt may draw
MaxUsers == 2      \* identities stored
MaxOrders == 2     \* orders ever placed
MaxClock == 1      \* readings of the wall clock, 0..MaxClock
MaxRequests == 3   \* requests in a run of the whole server (Spec)
MaxInflight == 2   \* sign-ups between their existence check and their save

\* ------------------------------------------------------------------ values
\* A field that is undefined / null / missing from a document.
NONE == "undefined"

KeyName == <<"a@x.com", "b@x.com", "c@x.com", "d@x.com">>
SecretName == <<"pw1", "pw2", "pw3", "pw4">>

\* Strings used as email or as mobile: both are unvalidated String fields.
Keys == {KeyName[i] : i \in 1..MaxKey}
OptKeys == Keys \cup {NONE}
Secrets == {SecretName[i] : i \in 1..MaxSecret}
OptSecrets == Secrets \cup {NONE}
Salts == 1..MaxSalt
Names == {"Ann", NONE}

JWT_SECRET == "dc5e41e7"
ForeignKey == "not-the-server-key"

StatusEnum == {"Pending", "Delivered", "Rejected"}
StatusInputs == StatusEnum \cup {"Bogus", NONE}

\* ObjectIds of orders are 1, 2, ...; BadId is a string that is no ObjectId.
BadId == 0
OrderIds == 1..MaxOrders
IdInputs == OrderIds \cup {BadId}

\* A totalAmount that mongoose cannot cast to Number.
NotANumber == -1

VARIABLES
    users,     \* User collection: sequence of documents in insertion order
    orders,    \* Order collection: sequence of documents in insertion order
    nextId,    \* number of ObjectIds handed out to orders
    now,       \* Date.now()
    last,      \* the last request and its response
    served,    \* requests handled so far, counted where runs are cut
    cut,       \* whether this run is cut at MaxRequests requests
    inflight   \* sign-ups past their existence check, awaiting save()

vars == <<users, orders, nextId, now, last, served, cut, inflight>>

\* A request is accepted: one more of the run's requests is used.
Serve ==
    /\ cut => served < MaxRequests
    /\ served' = IF cut THEN served + 1 ELSE served
    /\ cut' = cut

\* The sequence without its k-th element.
RemoveAt(seq, k) == SubSeq(seq, 1, k - 1) \o SubSeq(seq, k + 1, Len(seq))

\* ------------------------------------------------------------------ bcrypt
\* The digest is a collision-free function of (salt, password); the salt is
\* stored beside it, as in a bcrypt hash string.
Digest(password, salt) == <<"$2a$10$", salt, password>>

bcryptHash(password, salt) == [salt |-> salt, digest |-> Digest(password, salt)]

bcryptCompare(password, hash) == Digest(password, hash.salt) = hash.digest

\* ------------------------------------------------------------------ jwt
\* A token is header.payload.signature; anything else is malformed.
HS256(header, payload, key) == <<"HS256", key, header, payload>>

jwtSign(claim, key, iat) ==
    LET payload == [email |-> claim.email, iat |-> iat]
    IN  <<"HS256", payload, HS256("HS256", payload, key)>>

JwtError == [ok |-> FALSE]

\* Mutant: the payload is decoded and the signature never compared.
jwtDecodeOnly(token, key) ==
    IF Len(token) # 3 THEN JwtError
    ELSE [ok |-> TRUE, payload |-> token[2]]

jwtVerify(token, key) ==
    IF Len(token) # 3 THEN JwtError
    ELSE IF token[3] # HS256(token[1], token[2], key) THEN JwtError
    ELSE [ok |-> TRUE, payload |-> token[2]]

\* iat is the clock in seconds; the clock of the model counts milliseconds.
IssuedAt == now \div 1000

\* ------------------------------------------------------------------ guard
\* The Authorization header as the words between its spaces (<<>> is the
\* empty string); an absent header has present = FALSE.
\* req.header('Authorization')?.split(' ')[1]
HeaderCredential(header) ==
    IF ~header.present THEN [defined |-> FALSE]
    ELSE IF Len(header.words) < 2 THEN [defined |-> FALSE]
    ELSE [defined |-> TRUE, token |-> header.words[2]]

\* Mutant: only an undefined credential is refused, the empty one is verified.
NoTokenUndefinedOnly(cred) == ~cred.defined

\* !token
NoToken(cred) == ~cred.defined \/ cred.token = <<>>

\* authenticateJWT: 401, 403, or next() with req.user set.
authenticateJWT(header) ==
    LET cred == HeaderCredential(header)
    IN  IF NoToken(cred) THEN [code |-> 401, next |-> FALSE]
        ELSE LET v == jwtVerify(cred.token, JWT_SECRET)
             IN  IF ~v.ok THEN [code |-> 403, next |-> FALSE]
                 ELSE [code |-> 200, next |-> TRUE, user |-> v.payload]

\* ------------------------------------------------------------------ User
\* Mutant: the filter names the email alone.
MatchingUsersByEmail(e, m) ==
    {i \in 1..Len(users) : users[i].email = e}

\* User.findOne({ $or: [{ email: e }, { mobile: m }] }): the documents the
\* filter matches.  An undefined or null value matches a missing field.
MatchingUsers(e, m) ==
    {i \in 1..Len(users) : users[i].email = e \/ users[i].mobile = m}

\* Mutant: the schema without unique: true, no index to violate.
NoUniqueIndex(u) == FALSE

\* The unique indexes on email and on mobile; a missing field is indexed as
\* null, so two documents without it collide as well.
DuplicateKey(u) ==
    \E i \in 1..Len(users) : users[i].email = u.email \/ users[i].mobile = u.mobile

\* The outcome of user.save() for a document that passed the existence
\* check: a validation error, a duplicate-key error, or the insert.
SaveUser(u) ==
    IF u.name = NONE THEN "ValidationError"
    ELSE IF DuplicateKey(u) THEN "E11000"
    ELSE "saved"

\* The body shared by POST /signup and POST /adminsignup (the two handlers
\* are the same code).  The profile image is stored by path only and read by
\* no handler; it is left out.
Register(route, name, mobile, email, password, salt) ==
    LET req == [name |-> name, mobile |-> mobile, email |-> email,
                password |-> password]
        u == [name |-> name, mobile |-> mobile, email |-> email,
              password |-> bcryptHash(password, salt)]
    IN  /\ Serve
        /\ UNCHANGED <<orders, nextId, now, inflight>>
        /\ IF MatchingUsers(email, mobile) # {}
           THEN /\ users' = users
                /\ last' = [op |-> route, req |-> req, code |-> 400]
           ELSE IF password = NONE          \* bcrypt.hash throws
           THEN /\ users' = users
                /\ last' = [op |-> route, req |-> req, code |-> 500]
           ELSE IF SaveUser(u) # "saved"
           THEN /\ users' = users
                /\ last' = [op |-> route, req |-> req, code |-> 500]
           ELSE /\ Len(users) < MaxUsers
                /\ users' = Append(users, u)
                /\ last' = [op |-> route, req |-> req, code |-> 201,
                            token |-> jwtSign([email |-> u.email], JWT_SECRET, IssuedAt),
                            name |-> u.name, email |-> u.email]

\* The body shared by POST /signin and POST /adminsignin.  findOne returns one
\* of the matching documents; which one is the query planner's choice.
Authenticate(route, identifier, password) ==
    LET req == [identifier |-> identifier, password |-> password]
        found == MatchingUsers(identifier, identifier)
    IN  /\ Serve
        /\ UNCHANGED <<users, orders, nextId, now, inflight>>
        /\ IF found = {}
           THEN last' = [op |-> route, req |-> req, code |-> 401]
           ELSE \E i \in found :
                  IF password = NONE        \* bcrypt.compare throws
                  THEN last' = [op |-> route, req |-> req, code |-> 500]
                  ELSE IF ~bcryptCompare(password, users[i].password)
                  THEN last' = [op |-> route, req |-> req, code |-> 401]
                  ELSE last' = [op |-> route, req |-> req, code |-> 200,
                                token |-> jwtSign([email |-> users[i].email],
                                                  JWT_SECRET, IssuedAt),
                                name |-> users[i].name, email |-> users[i].email,
                                user |-> i]

\* The sign-up handler up to its first await: the request arrives and
\* User.findOne answers.  A request that finds no identity goes on to
\* bcrypt.hash and user.save(), and other requests are served meanwhile.
RegisterCheck(route, name, mobile, email, password) ==
    LET req == [name |-> name, mobile |-> mobile, email |-> email,
                password |-> password]
    IN  /\ Serve
        /\ UNCHANGED <<users, orders, nextId, now>>
        /\ IF MatchingUsers(email, mobile) # {}
           THEN /\ inflight' = inflight
                /\ last' = [op |-> route, req |-> req, code |-> 400]
           ELSE IF password = NONE          \* bcrypt.hash throws
           THEN /\ inflight' = inflight
                /\ last' = [op |-> route, req |-> req, code |-> 500]
           ELSE /\ Len(inflight) < MaxInflight
                /\ inflight' = Append(inflight, [route |-> route, req |-> req])
                /\ last' = [op |-> "findOne", req |-> req, code |-> 0]

\* The rest of the sign-up handler, for the k-th request in flight:
\* user.save() against the collection as it is by now, then the response.
RegisterSave(k, salt) ==
    LET r == inflight[k]
        u == [name |-> r.req.name, mobile |-> r.req.mobile, email |-> r.req.email,
              password |-> bcryptHash(r.req.password, salt)]
    IN  /\ inflight' = RemoveAt(inflight, k)
        /\ UNCHANGED <<orders, nextId, now, served, cut>>
        /\ IF SaveUser(u) # "saved"
           THEN /\ users' = users
                /\ last' = [op |-> r.route, req |-> r.req, code |-> 500]
           ELSE /\ Len(users) < MaxUsers
                /\ users' = Append(users, u)
                /\ last' = [op |-> r.route, req |-> r.req, code |-> 201,
                            token |-> jwtSign([email |-> u.email], JWT_SECRET, IssuedAt),
                            name |-> u.name, email |-> u.email]

Signup(name, mobile, email, password, salt) ==
    Register("POST /signup", name, mobile, email, password, salt)

AdminSignup(name, mobile, email, password, salt) ==
    Register("POST /adminsignup", name, mobile, email, password, salt)

Signin(identifier, password) == Authenticate("POST /signin", identifier, password)

AdminSignin(identifier, password) ==
    Authenticate("POST /adminsignin", identifier, password)

\* GET /profile: the identity whose email is the token's claim, sans password.
Profile(header) ==
    LET auth == authenticateJWT(header)
        req == [header |-> header]
    IN  /\ Serve
        /\ UNCHANGED <<users, orders, nextId, now, inflight>>
        /\ IF ~auth.next
           THEN last' = [op |-> "GET /profile", req |-> req, code |-> auth.code,
                         ran |-> FALSE]
           ELSE LET found == {i \in 1..Len(users) : users[i].email = auth.user.email}
                IN  IF found = {}
                    THEN last' = [op |-> "GET /profile", req |-> req, code |-> 404,
                                  ran |-> TRUE, user |-> auth.user]
                    ELSE \E i \in found :
                           last' = [op |-> "GET /profile", req |-> req, code |-> 200,
                                    ran |-> TRUE, user |-> auth.user,
                                    body |-> [name |-> users[i].name,
                                              mobile |-> users[i].mobile,
                                              email |-> users[i].email]]

\* GET /protected
Protected(header) ==
    LET auth == authenticateJWT(header)
        req == [header |-> header]
    IN  /\ Serve
        /\ UNCHANGED <<users, orders, nextId, now, inflight>>
        /\ IF ~auth.next
           THEN last' = [op |-> "GET /protected", req |-> req, code |-> auth.code,
                         ran |-> FALSE]
           ELSE last' = [op |-> "GET /protected", req |-> req, code |-> 200,
                         ran |-> TRUE, user |-> auth.user]

\* ------------------------------------------------------------------ Order
\* Mutant: the filter also asks for status 'Pending'.
OrdersByEmailPending(email) ==
    {k \in 1..Len(orders) :
        orders[k].userDetails.email = email /\ orders[k].status = "Pending"}

\* Positions, in the collection, of the documents a filter selects.
OrdersByEmail(email) ==
    {k \in 1..Len(orders) : orders[k].userDetails.email = email}

AllPositions == 1..Len(orders)

OrderAt(id) == {k \in 1..Len(orders) : orders[k]._id = id}

\* Mutant: .sort({ createdAt: 1 }), oldest first.
SortByCreatedAtAsc(sel) ==
    LET n == Cardinality(sel)
        perms == {p \in [1..n -> sel] : \A i, j \in 1..n : i # j => p[i] # p[j]}
        sorted == {p \in perms : \A i, j \in 1..n :
                        i < j => orders[p[i]].createdAt <= orders[p[j]].createdAt}
    IN  {[i \in 1..n |-> orders[p[i]]] : p \in sorted}

\* .sort({ createdAt: -1 }): the selected documents, most recent first.
\* Documents with equal createdAt come in an order the store chooses.
SortByCreatedAtDesc(sel) ==
    LET n == Cardinality(sel)
        perms == {p \in [1..n -> sel] : \A i, j \in 1..n : i # j => p[i] # p[j]}
        sorted == {p \in perms : \A i, j \in 1..n :
                        i < j => orders[p[i]].createdAt >= orders[p[j]].createdAt}
    IN  {[i \in 1..n |-> orders[p[i]]] : p \in sorted}

\* Mutant: the status of the body is stored when it is one of the enum.
PlaceOrderTrustingStatus(body) ==
    LET doc == [_id |-> nextId + 1,
                userDetails |-> body.userDetails,
                orderDetails |-> IF body.orderDetails.present
                                 THEN body.orderDetails.items ELSE <<>>,
                totalAmount |-> body.totalAmount,
                paymentMethod |-> body.paymentMethod,
                status |-> IF body.status \in StatusEnum THEN body.status
                           ELSE "Pending",
                createdAt |-> now,
                updatedAt |-> now]
    IN  /\ Serve
        /\ UNCHANGED <<users, now, inflight>>
        /\ IF body.totalAmount = NotANumber
           THEN /\ UNCHANGED <<orders, nextId>>
                /\ last' = [op |-> "POST /orders", req |-> body, code |-> 500]
           ELSE /\ nextId < MaxOrders
                /\ orders' = Append(orders, doc)
                /\ nextId' = nextId + 1
                /\ last' = [op |-> "POST /orders", req |-> body, code |-> 201]

\* POST /orders.  Of the body only userDetails, orderDetails, totalAmount and
\* paymentMethod are read; the status is the literal 'Pending'.  A missing
\* orderDetails is stored as the empty array; a totalAmount that is no number
\* makes save() reject.  The response carries a message only.
PlaceOrder(body) ==
    LET doc == [_id |-> nextId + 1,
                userDetails |-> body.userDetails,
                orderDetails |-> IF body.orderDetails.present
                                 THEN body.orderDetails.items ELSE <<>>,
                totalAmount |-> body.totalAmount,
                paymentMethod |-> body.paymentMethod,
                status |-> "Pending",
                createdAt |-> now,
                updatedAt |-> now]
    IN  /\ Serve
        /\ UNCHANGED <<users, now, inflight>>
        /\ IF body.totalAmount = NotANumber
           THEN /\ UNCHANGED <<orders, nextId>>
                /\ last' = [op |-> "POST /orders", req |-> body, code |-> 500]
           ELSE /\ nextId < MaxOrders
                /\ orders' = Append(orders, doc)
                /\ nextId' = nextId + 1
                /\ last' = [op |-> "POST /orders", req |-> body, code |-> 201]

\* Mutant: the status is not checked by the handler; the update's validators
\* reject a status outside the enum and the catch answers 500.
UpdateStatusUnchecked(id, status) ==
    LET req == [id |-> id, status |-> status]
    IN  /\ Serve
        /\ UNCHANGED <<users, nextId, now, inflight>>
        /\ IF id = BadId \/ status \notin StatusEnum
           THEN /\ orders' = orders
                /\ last' = [op |-> "PUT /orders/:id", req |-> req, code |-> 500]
           ELSE IF OrderAt(id) = {}
           THEN /\ orders' = orders
                /\ last' = [op |-> "PUT /orders/:id", req |-> req, code |-> 404]
           ELSE \E k \in OrderAt(id) :
                  /\ orders' = [orders EXCEPT ![k].status = status,
                                              ![k].updatedAt = now]
                  /\ last' = [op |-> "PUT /orders/:id", req |-> req, code |-> 200,
                              body |-> orders'[k]]

\* Mutant: the schema without timestamps, updatedAt left as it was.
UpdateStatusStaleTimestamp(id, status) ==
    LET req == [id |-> id, status |-> status]
    IN  /\ Serve
        /\ UNCHANGED <<users, nextId, now, inflight>>
        /\ IF status \notin StatusEnum
           THEN /\ orders' = orders
                /\ last' = [op |-> "PUT /orders/:id", req |-> req, code |-> 400]
           ELSE IF id = BadId
           THEN /\ orders' = orders
                /\ last' = [op |-> "PUT /orders/:id", req |-> req, code |-> 500]
           ELSE IF OrderAt(id) = {}
           THEN /\ orders' = orders
                /\ last' = [op |-> "PUT /orders/:id", req |-> req, code |-> 404]
           ELSE \E k \in OrderAt(id) :
                  /\ orders' = [orders EXCEPT ![k].status = status]
                  /\ last' = [op |-> "PUT /orders/:id", req |-> req, code |-> 200,
                              body |-> orders'[k]]

\* Mutant: neither the handler's check nor runValidators; whatever status the
\* body holds is set.
UpdateStatusNoValidation(id, status) ==
    LET req == [id |-> id, status |-> status]
    IN  /\ Serve
        /\ UNCHANGED <<users, nextId, now, inflight>>
        /\ IF id = BadId
           THEN /\ orders' = orders
                /\ last' = [op |-> "PUT /orders/:id", req |-> req, code |-> 500]
           ELSE IF OrderAt(id) = {}
           THEN /\ orders' = orders
                /\ last' = [op |-> "PUT /orders/:id", req |-> req, code |-> 404]
           ELSE \E k \in OrderAt(id) :
                  /\ orders' = [orders EXCEPT ![k].status = status,
                                              ![k].updatedAt = now]
                  /\ last' = [op |-> "PUT /orders/:id", req |-> req, code |-> 200,
                              body |-> orders'[k]]

\* Mutant: Delivered and Rejected are final; an order that left Pending is not
\* updated again (409).
UpdateStatusFinal(id, status) ==
    LET req == [id |-> id, status |-> status]
    IN  /\ Serve
        /\ UNCHANGED <<users, nextId, now, inflight>>
        /\ IF status \notin StatusEnum
           THEN /\ orders' = orders
                /\ last' = [op |-> "PUT /orders/:id", req |-> req, code |-> 400]
           ELSE IF id = BadId
           THEN /\ orders' = orders
                /\ last' = [op |-> "PUT /orders/:id", req |-> req, code |-> 500]
           ELSE IF OrderAt(id) = {}
           THEN /\ orders' = orders
                /\ last' = [op |-> "PUT /orders/:id", req |-> req, code |-> 404]
           ELSE \E k \in OrderAt(id) :
                  IF orders[k].status # "Pending"
                  THEN /\ orders' = orders
                       /\ last' = [op |-> "PUT /orders/:id", req |-> req, code |-> 409]
                  ELSE /\ orders' = [orders EXCEPT ![k].status = status,
                                                   ![k].updatedAt = now]
                       /\ last' = [op |-> "PUT /orders/:id", req |-> req, code |-> 200,
                                   body |-> orders'[k]]

\* PUT /orders/:id.  findByIdAndUpdate sets the status and, the schema having
\* timestamps, updatedAt; an id that is no ObjectId makes it throw.
UpdateStatus(id, status) ==
    LET req == [id |-> id, status |-> status]
    IN  /\ Serve
        /\ UNCHANGED <<users, nextId, now, inflight>>
        /\ IF status \notin StatusEnum
           THEN /\ orders' = orders
                /\ last' = [op |-> "PUT /orders/:id", req |-> req, code |-> 400]
           ELSE IF id = BadId
           THEN /\ orders' = orders
                /\ last' = [op |-> "PUT /orders/:id", req |-> req, code |-> 500]
           ELSE IF OrderAt(id) = {}
           THEN /\ orders' = orders
                /\ last' = [op |-> "PUT /orders/:id", req |-> req, code |-> 404]
           ELSE \E k \in OrderAt(id) :
                  /\ orders' = [orders EXCEPT ![k].status = status,
                                              ![k].updatedAt = now]
                  /\ last' = [op |-> "PUT /orders/:id", req |-> req, code |-> 200,
                              body |-> orders'[k]]

\* DELETE /orders/:id
DeleteOrder(id) ==
    LET req == [id |-> id]
    IN  /\ Serve
        /\ UNCHANGED <<users, nextId, now, inflight>>
        /\ IF id = BadId
           THEN /\ orders' = orders
                /\ last' = [op |-> "DELETE /orders/:id", req |-> req, code |-> 500]
           ELSE IF OrderAt(id) = {}
           THEN /\ orders' = orders
                /\ last' = [op |-> "DELETE /orders/:id", req |-> req, code |-> 404]
           ELSE \E k \in OrderAt(id) :
                  /\ orders' = RemoveAt(orders, k)
                  /\ last' = [op |-> "DELETE /orders/:id", req |-> req, code |-> 200,
                              body |-> orders[k]]

\* GET /orders: behind authenticateJWT, the orders whose userDetails.email is
\* the token's email claim (an undefined claim matches a missing email).
ListOrders(header) ==
    LET auth == authenticateJWT(header)
        req == [header |-> header]
    IN  /\ Serve
        /\ UNCHANGED <<users, orders, nextId, now, inflight>>
        /\ IF ~auth.next
           THEN last' = [op |-> "GET /orders", req |-> req, code |-> auth.code,
                         ran |-> FALSE]
           ELSE LET sel == OrdersByEmail(auth.user.email)
                IN  IF sel = {}
                    THEN last' = [op |-> "GET /orders", req |-> req, code |-> 404,
                                  ran |-> TRUE, user |-> auth.user]
                    ELSE \E list \in SortByCreatedAtDesc(sel) :
                           last' = [op |-> "GET /orders", req |-> req, code |-> 200,
                                    ran |-> TRUE, user |-> auth.user, body |-> list]

\* GET /allorders
AllOrders ==
    /\ Serve
    /\ UNCHANGED <<users, orders, nextId, now, inflight>>
    /\ IF AllPositions = {}
       THEN last' = [op |-> "GET /allorders", code |-> 404]
       ELSE \E list \in SortByCreatedAtDesc(AllPositions) :
              last' = [op |-> "GET /allorders", code |-> 200, body |-> list]

\* The wall clock advances between requests.
Tick ==
    /\ now < MaxClock
    /\ now' = now + 1
    /\ last' = [op |-> "tick", code |-> 0]
    /\ UNCHANGED <<users, orders, nextId, served, cut, inflight>>

\* ------------------------------------------------------------------ inputs
UserDetailsInputs ==
    {[name |-> NONE, email |-> NONE]} \cup {[name |-> "Ann", email |-> e] : e \in Keys}

Burger == [foodName |-> "Burger", foodPrice |-> 5, quantity |-> 2]

MissingLines == [present |-> FALSE, items |-> <<>>]
EmptyLines == [present |-> TRUE, items |-> <<>>]
OneLine == [present |-> TRUE, items |-> <<Burger>>]

\* Bodies with a line item and any purchaser; bodies of the first purchaser
\* with the line list missing or empty.
OrderBodies ==
    [userDetails : UserDetailsInputs, orderDetails : {OneLine},
     totalAmount : {10, NotANumber}, paymentMethod : {"cash"},
     status : {NONE, "Delivered", "Bogus"}]
    \cup
    [userDetails : {[name |-> "Ann", email |-> KeyName[1]]},
     orderDetails : {MissingLines, EmptyLines},
     totalAmount : {10}, paymentMethod : {"cash"}, status : {NONE}]

\* Tokens the server has issued: one per stored identity (iat is the same
\* second throughout).
IssuedTokens ==
    {jwtSign([email |-> users[i].email], JWT_SECRET, IssuedAt) : i \in 1..Len(users)}

\* Tokens for the same claims signed under another key.
ForeignTokens ==
    {jwtSign(t[2], ForeignKey, t[2].iat) : t \in IssuedTokens}

\* Issued tokens whose payload was replaced, the signature kept.
TamperedTokens ==
    {<<t[1], [email |-> e, iat |-> t[2].iat], t[3]>> :
        t \in IssuedTokens, e \in Keys} \ IssuedTokens

MalformedTokens == {<<"junk">>}

ClientTokens == IssuedTokens \cup ForeignTokens \cup TamperedTokens \cup MalformedTokens

Header(words) == [present |-> TRUE, words |-> words]

\* No header; "Bearer"; "Bearer "; "Bearer <token>"; and, for issued tokens,
\* "<token>" alone and "Basic <token>".
Headers ==
    {[present |-> FALSE, words |-> <<>>],
     Header(<< <<"Bearer">> >>),
     Header(<< <<"Bearer">>, <<>> >>)}
    \cup {Header(<< <<"Bearer">>, t >>) : t \in ClientTokens}
    \cup {Header(<<t>>) : t \in IssuedTokens}
    \cup {Header(<< <<"Basic">>, t >>) : t \in IssuedTokens}

\* ------------------------------------------------------------------ spec
Empty ==
    /\ users = <<>>
    /\ orders = <<>>
    /\ nextId = 0
    /\ now = 0
    /\ last = [op |-> "start", code |-> 0]
    /\ served = 0
    /\ inflight = <<>>

\* The whole server, its runs cut at MaxRequests requests.
Init == Empty /\ cut = TRUE

Next ==
    \/ \E n \in Names, m \in OptKeys, e \in OptKeys, p \in OptSecrets, s \in Salts :
         Signup(n, m, e, p, s)
    \/ \E n \in Names, m \in OptKeys, e \in OptKeys, p \in OptSecrets, s \in Salts :
         AdminSignup(n, m, e, p, s)
    \/ \E i \in OptKeys, p \in OptSecrets : Signin(i, p)
    \/ \E i \in OptKeys, p \in OptSecrets : AdminSignin(i, p)
    \/ \E h \in Headers : Profile(h)
    \/ \E h \in Headers : Protected(h)
    \/ \E b \in OrderBodies : PlaceOrder(b)
    \/ \E id \in IdInputs, st \in StatusInputs : UpdateStatus(id, st)
    \/ \E id \in IdInputs : DeleteOrder(id)
    \/ \E h \in Headers : ListOrders(h)
    \/ AllOrders
    \/ Tick

Spec == Init /\ [][Next]_vars

\* The identity collection and the guarded routes, the ledger left empty;
\* runs of any length.
InitIdentity == Empty /\ cut = FALSE

NextIdentity ==
    \/ \E n \in Names, m \in OptKeys, e \in OptKeys, p \in OptSecrets, s \in Salts :
         Signup(n, m, e, p, s)
    \/ \E n \in Names, m \in OptKeys, e \in OptKeys, p \in OptSecrets, s \in Salts :
         AdminSignup(n, m, e, p, s)
    \/ \E i \in OptKeys, p \in OptSecrets : Signin(i, p)
    \/ \E i \in OptKeys, p \in OptSecrets : AdminSignin(i, p)
    \/ \E h \in Headers : Profile(h)
    \/ \E h \in Headers : Protected(h)
    \/ \E h \in Headers : ListOrders(h)

SpecIdentity == InitIdentity /\ [][NextIdentity]_vars

\* The ledger, from the identity collection two sign-ups leave:
\* POST /signup {Ann, a@x.com, pw1}, then
\* POST /signup {Ann, b@x.com, mobile a@x.com, pw1}; runs of any length.
SeedUsers ==
    <<[name |-> "Ann", mobile |-> NONE, email |-> KeyName[1],
       password |-> bcryptHash(SecretName[1], 1)],
      [name |-> "Ann", mobile |-> KeyName[1], email |-> KeyName[2],
       password |-> bcryptHash(SecretName[1], 1)]>>

InitLedger ==
    /\ users = SeedUsers
    /\ orders = <<>>
    /\ nextId = 0
    /\ now = 0
    /\ last = [op |-> "start", code |-> 0]
    /\ served = 0
    /\ inflight = <<>>
    /\ cut = FALSE

NextLedger ==
    \/ \E b \in OrderBodies : PlaceOrder(b)
    \/ \E id \in IdInputs, st \in StatusInputs : UpdateStatus(id, st)
    \/ \E id \in IdInputs : DeleteOrder(id)
    \/ \E h \in Headers : ListOrders(h)
    \/ AllOrders
    \/ Tick

SpecLedger == InitLedger /\ [][NextLedger]_vars

\* Sign-ups served concurrently: each handler runs to its await of findOne,
\* and resumes with save() after any number of steps of other requests.
\* The requests carry a name and the first password, with or without a
\* mobile and an email, or no password at all.
NextRace ==
    \/ \E m \in OptKeys, e \in OptKeys, p \in {SecretName[1], NONE} :
         RegisterCheck("POST /signup", "Ann", m, e, p)
    \/ \E m \in OptKeys, e \in OptKeys, p \in {SecretName[1], NONE} :
         RegisterCheck("POST /adminsignup", "Ann", m, e, p)
    \/ \E k \in 1..Len(inflight), s \in Salts : RegisterSave(k, s)

SpecRace == InitIdentity /\ [][NextRace]_vars

\* ------------------------------------------------------------------ claims
SignupRoutes == {"POST /signup", "POST /adminsignup"}
SigninRoutes == {"POST /signin", "POST /adminsignin"}
GuardedRoutes == {"GET /orders", "GET /profile", "GET /protected"}

HasToken(r) == "token" \in DOMAIN r

\* A supplied email or mobile of the request is that of a stored identity.
SharesIdentifier(req) ==
    \E i \in 1..Len(users) :
        \/ req.email # NONE /\ users[i].email = req.email
        \/ req.mobile # NONE /\ users[i].mobile = req.mobile

\* C1: a sign-up (POST /signup or POST /adminsignup) whose mobile or email is
\* that of an identity already stored is answered 400, issues no token and
\* leaves the stored identities as they were.
C1_DuplicateSignupRejected ==
    [][(last'.op \in SignupRoutes /\ SharesIdentifier(last'.req))
         => (last'.code = 400 /\ ~HasToken(last') /\ users' = users)]_vars

C1_Witness ==
    /\ last.op \in SignupRoutes
    /\ last.code = 400
    /\ \E i \in 1..Len(users) :
          users[i].mobile # NONE /\ users[i].mobile = last.req.mobile
             /\ users[i].email # last.req.email

\* The credential of a header: the word after the first space, if it is there
\* and not empty; as a sequence of none or one token.
Credential(h) ==
    IF h.present /\ Len(h.words) >= 2 /\ h.words[2] # <<>> THEN <<h.words[2]>>
    ELSE <<>>

\* C2: on a guarded route (GET /orders, GET /profile, GET /protected) a request
\* without a credential is answered 401 and one whose token does not verify
\* is answered 403, the handler running in neither case; the handler runs
\* exactly when the token verifies, and sees the email the token embeds.
C2_GuardDecides ==
    last.op \in GuardedRoutes =>
        LET c == Credential(last.req.header)
        IN  /\ c = <<>> => (last.code = 401 /\ ~last.ran)
            /\ (c # <<>> /\ ~jwtVerify(c[1], JWT_SECRET).ok)
                  => (last.code = 403 /\ ~last.ran)
            /\ last.ran <=> (c # <<>> /\ jwtVerify(c[1], JWT_SECRET).ok)
            /\ last.ran => last.user.email = c[1][2].email

C2_Witness ==
    /\ last.op = "GET /profile"
    /\ last.ran
    /\ last.code = 200
    /\ last.user.email \in Keys

\* C3: the token issued for a claim verifies to that claim's email; a token
\* whose payload was replaced, or that another key signed, does not verify
\* and yields no claim on a guarded route.
C3_TokenRoundTrip ==
    /\ HasToken(last) =>
          LET v == jwtVerify(last.token, JWT_SECRET)
          IN  v.ok /\ v.payload.email = last.email
    /\ \A t \in TamperedTokens \cup ForeignTokens : ~jwtVerify(t, JWT_SECRET).ok
    /\ (last.op \in GuardedRoutes
          /\ Credential(last.req.header) # <<>>
          /\ Credential(last.req.header)[1] \in TamperedTokens \cup ForeignTokens)
         => (last.code = 403 /\ ~last.ran /\ "user" \notin DOMAIN last)

C3_Witness ==
    /\ last.op \in GuardedRoutes
    /\ Credential(last.req.header) # <<>>
    /\ Credential(last.req.header)[1] \in TamperedTokens
    /\ last.code = 403

\* C8: sign-in (POST /signin or POST /adminsignin) issues a token only when a
\* stored identity has mobile or email equal to the supplied identifier and
\* the supplied secret is the one it registered with; a secret that is wrong
\* for every such identity, or an identifier of no identity, is answered 401
\* without a token.
C8_SigninNeedsMatchingCredentials ==
    last.op \in SigninRoutes =>
        LET id == last.req.identifier
            pw == last.req.password
            holders == {i \in 1..Len(users) :
                          id # NONE /\ (users[i].email = id \/ users[i].mobile = id)}
            right == {i \in holders : pw # NONE /\ bcryptCompare(pw, users[i].password)}
        IN  /\ HasToken(last) => right # {}
            /\ (pw # NONE /\ right = {}) => (last.code = 401 /\ ~HasToken(last))

\* C9: once a sign-up with email e and secret s has succeeded, a sign-in with
\* identifier e and secret s is answered 200 with a token that verifies to
\* the claim {email: e}, whatever was done in between.
C9_SigninAfterSignup ==
    (/\ last.op \in SigninRoutes
     /\ last.req.identifier # NONE
     /\ last.req.password # NONE
     /\ \E i \in 1..Len(users) :
           /\ users[i].email = last.req.identifier
           /\ bcryptCompare(last.req.password, users[i].password))
    => /\ last.code = 200
       /\ HasToken(last)
       /\ jwtVerify(last.token, JWT_SECRET).ok
       /\ jwtVerify(last.token, JWT_SECRET).payload.email = last.req.identifier

\* The stored order with the given id, as a set of none or one document.
Stored(id) == {orders[k] : k \in OrderAt(id)}

\* C4: an order created by POST /orders is stored with status Pending whatever
\* the body holds, under an id no order had, and the status of a stored order
\* changes only in a step that is a successful PUT /orders/:id for its id.
C4_PendingUntilUpdate ==
    [][/\ (last'.op = "POST /orders" /\ last'.code = 201)
            => /\ Len(orders') = Len(orders) + 1
               /\ orders'[Len(orders')].status = "Pending"
               /\ \A k \in 1..Len(orders) : orders[k]._id # orders'[Len(orders')]._id
       /\ \A k \in 1..Len(orders), j \in 1..Len(orders') :
            (orders[k]._id = orders'[j]._id /\ orders[k].status # orders'[j].status)
              => /\ last'.op = "PUT /orders/:id"
                 /\ last'.code = 200
                 /\ last'.req.id = orders[k]._id]_vars

C4_Witness ==
    /\ last.op \in SignupRoutes
    /\ last.code = 201
    /\ \E k \in 1..Len(orders) :
          orders[k].status = "Pending" /\ orders[k].updatedAt = orders[k].createdAt

\* C5: a PUT /orders/:id whose status is none of Pending, Delivered, Rejected
\* (a missing status too) is answered 400 and changes no stored order.
C5_InvalidStatusRejected ==
    [][(last'.op = "PUT /orders/:id" /\ last'.req.status \notin StatusEnum)
         => (last'.code = 400 /\ orders' = orders)]_vars

C5_Witness ==
    /\ last.op = "PUT /orders/:id"
    /\ last.req.status = "Bogus"
    /\ last.code = 400
    /\ Stored(last.req.id) # {}

\* C6 as claimed: a PUT to Delivered on an existing order returns it with
\* status Delivered and an update timestamp strictly later than its creation
\* timestamp.
C6_UpdatedStrictlyLater ==
    (last.op = "PUT /orders/:id" /\ last.code = 200 /\ last.req.status = "Delivered")
      => /\ last.body.status = "Delivered"
         /\ last.body.updatedAt > last.body.createdAt

\* C6 as amended: a PUT to Delivered on an existing order returns it, as now
\* stored, with status Delivered and the update timestamp set to the clock's
\* reading at the update, which is not earlier than the creation timestamp.
C6_UpdatedNotEarlier ==
    (last.op = "PUT /orders/:id" /\ last.code = 200 /\ last.req.status = "Delivered")
      => /\ last.body._id = last.req.id
         /\ last.body.status = "Delivered"
         /\ last.body.updatedAt = now
         /\ last.body.updatedAt >= last.body.createdAt
         /\ Stored(last.req.id) = {last.body}

C6_Witness ==
    /\ last.op = "PUT /orders/:id"
    /\ last.code = 200
    /\ last.req.status = "Delivered"
    /\ last.body.updatedAt = last.body.createdAt

\* C7: GET /orders with a token carrying an email returns only orders whose
\* userDetails.email is that email, most recently created first.
C7_ListingScopedAndSorted ==
    (last.op = "GET /orders" /\ last.code = 200)
      => LET e == Credential(last.req.header)[1][2].email
         IN  /\ \A i \in 1..Len(last.body) : last.body[i].userDetails.email = e
             /\ \A i, j \in 1..Len(last.body) :
                  i < j => last.body[i].createdAt >= last.body[j].createdAt

C7_Witness ==
    /\ last.op = "GET /orders"
    /\ last.code = 200
    /\ Len(last.body) = 2
    /\ last.body[1].createdAt > last.body[2].createdAt
    /\ last.body[1]._id > last.body[2]._id

\* The elements of a sequence.
Range(seq) == {seq[i] : i \in 1..Len(seq)}

\* C10: GET /orders with a token for email e returns every stored order whose
\* userDetails.email is e, each once, and no list (404) when there is none;
\* and right after an order for e is placed where none for e was stored, any
\* listing for e is that one order, with status Pending.
C10_ListingComplete ==
    [][/\ (last'.op = "GET /orders" /\ last'.ran)
            => LET e == last'.user.email
                   mine == {orders'[k] : k \in {j \in 1..Len(orders') :
                                                  orders'[j].userDetails.email = e}}
               IN  IF mine = {} THEN last'.code = 404
                   ELSE /\ last'.code = 200
                        /\ Range(last'.body) = mine
                        /\ Len(last'.body) = Cardinality(mine)
       /\ (/\ last'.op = "POST /orders"
           /\ last'.code = 201
           /\ \A k \in 1..Len(orders) :
                 orders[k].userDetails.email # last'.req.userDetails.email)
            => /\ orders'[Len(orders')].userDetails.email = last'.req.userDetails.email
               /\ orders'[Len(orders')].status = "Pending"
               /\ (SortByCreatedAtDesc(OrdersByEmail(last.req.userDetails.email))
                     = {<<orders[Len(orders)]>>})']_vars

C10_Witness ==
    /\ last.op = "GET /orders"
    /\ last.code = 200
    /\ Len(orders) = 2
    /\ last.body = <<orders[2]>>
    /\ last.body[1].status = "Pending"
    /\ last.user.email \in Keys

\* C11: a PUT /orders/:id with a status of the enum, addressed to an id no
\* stored order has, is answered 404 and leaves the ledger as it was (no
\* order created); addressed to a stored Pending order with status Rejected
\* it is answered 200 with that order, its status now Rejected.
C11_AbsentIdNotFound ==
    [][/\ (/\ last'.op = "PUT /orders/:id"
           /\ last'.req.status \in StatusEnum
           /\ OrderAt(last'.req.id) = {})
            => (last'.code = 404 /\ orders' = orders)
       /\ (/\ last'.op = "PUT /orders/:id"
           /\ last'.req.status = "Rejected"
           /\ \E k \in OrderAt(last'.req.id) : orders[k].status = "Pending")
            => /\ last'.code = 200
               /\ last'.body._id = last'.req.id
               /\ last'.body.status = "Rejected"
               /\ \E k \in 1..Len(orders') : orders'[k] = last'.body]_vars

\* C12: a DELETE /orders/:id for the id of a stored order is answered 200
\* with that order, removes it and nothing else, and leaves the identities
\* as they were; for an id no stored order has (the id of a removed order
\* too) it is answered 404 and changes nothing.
C12_RemovesExactlyOne ==
    [][last'.op = "DELETE /orders/:id"
         => IF OrderAt(last'.req.id) # {}
            THEN /\ last'.code = 200
                 /\ last'.body \in Stored(last'.req.id)
                 /\ Range(orders') = Range(orders) \ {last'.body}
                 /\ Len(orders') = Len(orders) - 1
                 /\ users' = users
            ELSE /\ last'.code = 404
                 /\ orders' = orders
                 /\ users' = users]_vars

\* The purchaser snapshot of a body is missing or empty: it names no one.
NoPurchaser(body) ==
    body.userDetails.name = NONE /\ body.userDetails.email = NONE

\* The line list of a body is missing or empty.
NoLines(body) == ~body.orderDetails.present \/ body.orderDetails.items = <<>>

\* C13: a POST /orders whose purchaser snapshot is missing or empty, or whose
\* line list is missing or empty, is answered with an error and stores no
\* order.
C13_PlacementValidated ==
    [][(last'.op = "POST /orders" /\ (NoPurchaser(last'.req) \/ NoLines(last'.req)))
         => (last'.code >= 400 /\ orders' = orders)]_vars

\* C14: in every state that placements, status updates and removals reach,
\* the status of every stored order is Pending, Delivered or Rejected.
C14_StatusInEnum ==
    \A k \in 1..Len(orders) : orders[k].status \in StatusEnum

C14_Witness ==
    /\ last.op = "DELETE /orders/:id"
    /\ last.code = 200
    /\ last.body.status = "Rejected"
    /\ Len(orders) = 1
    /\ orders[1].status = "Delivered"

\* C15: every stored identity has a mobile or an email (so that a sign-in can
\* name it), and a sign-up that supplies neither creates no identity.
C15_IdentityHasIdentifier ==
    /\ \A i \in 1..Len(users) : users[i].mobile # NONE \/ users[i].email # NONE
    /\ (/\ last.op \in SignupRoutes
        /\ last.req.mobile = NONE
        /\ last.req.email = NONE) => last.code # 201

\* C16: with sign-ups interleaved at their awaits, no two stored identities
\* have the same email and no two the same mobile; of sign-ups in flight
\* together with the same email at most one creates an identity.
C16_UniqueIdentifiers ==
    \A i, j \in 1..Len(users) :
        i # j => /\ users[i].email # NONE => users[i].email # users[j].email
                 /\ users[i].mobile # NONE => users[i].mobile # users[j].mobile

C16_Witness ==
    /\ last.op \in SignupRoutes
    /\ last.code = 500
    /\ last.req.name # NONE
    /\ last.req.email # NONE
    /\ \E i \in 1..Len(users) : users[i].email = last.req.email

\* C17: a PUT /orders/:id with a status t of the enum, for a stored order in
\* whatever status, is answered 200 and leaves that order with status t
\* (an order in Delivered or Rejected is set back to Pending like any
\* other); of the order's fields only status and updatedAt differ after it.
C17_AnyStatusToAny ==
    [][(/\ last'.op = "PUT /orders/:id"
        /\ last'.req.status \in StatusEnum
        /\ OrderAt(last'.req.id) # {})
         => /\ last'.code = 200
            /\ Len(orders') = Len(orders)
            /\ \A k \in OrderAt(last'.req.id) :
                 /\ orders'[k].status = last'.req.status
                 /\ orders'[k] = [orders[k] EXCEPT !.status = orders'[k].status,
                                                   !.updatedAt = orders'[k].updatedAt]]_vars

\* An order is Pending again after an update later than its creation, beside
\* an order that was rejected.
C17_Witness ==
    /\ last.op = "PUT /orders/:id"
    /\ last.code = 200
    /\ last.req.status = "Pending"
    /\ last.body.status = "Pending"
    /\ last.body.updatedAt > last.body.createdAt
    /\ Len(orders) = 2
    /\ \E k \in 1..Len(orders) : orders[k].status = "Rejected"

\* C18: the token a sign-up or a sign-in issues carries the email of the
\* identity it was issued for, and a GET /orders with such a token returns
\* only orders whose purchaser email is the email of that identity: none
\* that belongs to no identity or to another one, also when the identity
\* has a mobile and no email.
C18_ListingOfHolderOnly ==
    /\ (HasToken(last) /\ last.op \in SignupRoutes)
          => jwtVerify(last.token, JWT_SECRET).payload.email = users[Len(users)].email
    /\ (HasToken(last) /\ last.op \in SigninRoutes)
          => jwtVerify(last.token, JWT_SECRET).payload.email = users[last.user].email
    /\ (last.op = "GET /orders" /\ last.code = 200)
          => \A k \in 1..Len(last.body) :
               /\ last.body[k].userDetails.email # NONE
               /\ last.body[k].userDetails.email = last.user.email
               /\ \E i \in 1..Len(users) :
                     users[i].email = last.body[k].userDetails.email

\* C19: a sign-up is answered 400 only when a mobile or an email it supplies
\* is that of a stored identity; a well-formed sign-up that shares no
\* supplied identifier with a stored identity (two sign-ups with distinct
\* emails and no mobile, say) is answered 201 and its identity is stored.
C19_OmittedIsNoCollision ==
    [][/\ (last'.op \in SignupRoutes /\ last'.code = 400)
            => SharesIdentifier(last'.req)
       /\ (/\ last'.op \in SignupRoutes
           /\ last'.req.name # NONE
           /\ last'.req.password # NONE
           /\ last'.req.email # NONE
           /\ ~SharesIdentifier(last'.req))
            => /\ last'.code = 201
               /\ Len(users') = Len(users) + 1
               /\ users'[Len(users')].email = last'.req.email]_vars

\* C20: a listing that directly follows a listing of the same scope (GET
\* /allorders, or GET /orders for the same email), no request having changed
\* the ledger in between, returns the same sequence of orders, also when
\* orders have equal createdAt.
C20_RepeatedListingSame ==
    [][/\ (/\ last.op = "GET /allorders"
           /\ last.code = 200
           /\ last'.op = "GET /allorders")
            => (last'.code = 200 /\ last'.body = last.body)
       /\ (/\ last.op = "GET /orders"
           /\ last.code = 200
           /\ last'.op = "GET /orders"
           /\ last'.ran
           /\ last'.user.email = last.user.email)
            => (last'.code = 200 /\ last'.body = last.body)]_vars

====
